---------------------------- MODULE Spec2Model ----------------------------
(***************************************************************************)
(* A model of xmldiff.py: the comparison of two Android UI hierarchy       *)
(* dumps.  Python strings are TLA+ strings (TLC evaluates Len, SubSeq,     *)
(* Head, Tail and \o on them), Python lists are sequences, dicts are       *)
(* functions, and an optional value (None or a value) is a record with a   *)
(* tag.  Floats are exact rationals <<numerator, denominator>>; the score  *)
(* returned by calculate_difference_score is counted in units of 0.0001.   *)
(***************************************************************************)
EXTENDS Integers, Sequences, FiniteSets, TLC

VARIABLES
    pc,            \* position of the run
    base_root,     \* parsed base tree (main: base_root; collect_nodes: root)
    input_root,    \* parsed input tree
    stack,         \* collect_nodes: the explicit stack of (elem, path)
    base_nodes,    \* main: base_nodes; collect_nodes: nodes
    input_nodes,   \* main: input_nodes
    used_input,    \* main: used_input, a set of id(elem)
    id_pairs,      \* what match_by_resource_id returned
    pairs,         \* main: pairs; compare_nodes: its argument
    diffs,         \* main: diffs; calculate_difference_score: its argument
    total_nodes,   \* calculate_difference_score: total_nodes
    diff_score,    \* main: diff_score (units of 0.0001)
    prev_score,    \* the score returned for the list before the last append
    bounds_str,    \* parse_bounds: its argument
    bounds_out     \* parse_bounds: its outcome

vars == <<pc, base_root, input_root, stack, base_nodes, input_nodes, used_input,
          id_pairs, pairs, diffs, total_nodes, diff_score, prev_score,
          bounds_str, bounds_out>>

-----------------------------------------------------------------------------
(* Python values *)

None == [tag |-> "None"]
Str(s) == [tag |-> "str", val |-> s]
Tuple(t) == [tag |-> "tuple", val |-> t]
Raised(e) == [tag |-> "raise", exc |-> e]

\* bool(v) for the values the program tests: None and "" are false, a
\* non-empty string and a 4-tuple are true.
Truthy(v) == \/ v.tag = "tuple"
             \/ v.tag = "str" /\ v.val # ""

\* a or b
Or(a, b) == IF Truthy(a) THEN a ELSE b

\* d.get(k)
Get(d, k) == IF k \in DOMAIN d THEN Str(d[k]) ELSE None

Ch(s, i) == SubSeq(s, i, i)

Max(a, b) == IF a >= b THEN a ELSE b
Min(a, b) == IF a <= b THEN a ELSE b

\* The characters of the model in code point order (str comparison, sorted()).
CodePoints == "\t +,-0123456789ABCDEFGHIJKLMNOPQRSTUVWXYZ[]_abcdefghijklmnopqrstuvwxyz{}"
Ord(c) == CHOOSE i \in 1..Len(CodePoints) : Ch(CodePoints, i) = c

RECURSIVE StrLess(_, _)
StrLess(s, t) ==
    IF t = "" THEN FALSE
    ELSE IF s = "" THEN TRUE
    ELSE IF Head(s) = Head(t) THEN StrLess(Tail(s), Tail(t))
    ELSE Ord(Head(s)) < Ord(Head(t))

\* sorted(keys) of a set of strings
RECURSIVE Sorted(_)
Sorted(S) ==
    IF S = {} THEN <<>>
    ELSE LET m == CHOOSE x \in S : \A y \in S \ {x} : StrLess(x, y)
         IN  <<m>> \o Sorted(S \ {m})

IsSpace(c) == c \in {" ", "\t"}
IsDigit(c) == c \in {"0", "1", "2", "3", "4", "5", "6", "7", "8", "9"}
DigitVal(c) == Ord(c) - Ord("0")

\* s.split(): the maximal runs of non-whitespace characters
RECURSIVE SplitFrom(_, _)
SplitFrom(s, cur) ==
    IF s = "" THEN (IF cur = "" THEN <<>> ELSE <<cur>>)
    ELSE IF IsSpace(Head(s))
         THEN (IF cur = "" THEN <<>> ELSE <<cur>>) \o SplitFrom(Tail(s), "")
         ELSE SplitFrom(Tail(s), cur \o Head(s))
Split(s) == SplitFrom(s, "")

\* s.split(sep) for a one-character sep: empty pieces are kept
RECURSIVE SplitOnFrom(_, _, _)
SplitOnFrom(s, sep, cur) ==
    IF s = "" THEN <<cur>>
    ELSE IF Head(s) = sep THEN <<cur>> \o SplitOnFrom(Tail(s), sep, "")
         ELSE SplitOnFrom(Tail(s), sep, cur \o Head(s))
SplitOn(s, sep) == SplitOnFrom(s, sep, "")

\* sep.join(parts)
RECURSIVE Join(_, _)
Join(parts, sep) ==
    IF parts = <<>> THEN ""
    ELSE IF Len(parts) = 1 THEN parts[1]
    ELSE parts[1] \o sep \o Join(Tail(parts), sep)

\* s.strip()
RECURSIVE LStrip(_)
LStrip(s) == IF s # "" /\ IsSpace(Head(s)) THEN LStrip(Tail(s)) ELSE s
RECURSIVE RStrip(_)
RStrip(s) ==
    IF s # "" /\ IsSpace(Ch(s, Len(s))) THEN RStrip(SubSeq(s, 1, Len(s) - 1)) ELSE s
Strip(s) == RStrip(LStrip(s))

\* s.replace(old, new) for a two-character old, left to right, not overlapping
RECURSIVE Replace2(_, _, _)
Replace2(s, old, new) ==
    IF Len(s) < 2 THEN s
    ELSE IF SubSeq(s, 1, 2) = old THEN new \o Replace2(SubSeq(s, 3, Len(s)), old, new)
    ELSE Head(s) \o Replace2(Tail(s), old, new)

\* s.replace(c, "") for a one-character c
RECURSIVE Remove(_, _)
Remove(s, c) ==
    IF s = "" THEN ""
    ELSE IF Head(s) = c THEN Remove(Tail(s), c)
    ELSE Head(s) \o Remove(Tail(s), c)

\* s.startswith(p)
StartsWith(s, p) == Len(s) >= Len(p) /\ SubSeq(s, 1, Len(p)) = p

-----------------------------------------------------------------------------
(* Configuration *)

KEY_ATTRS == <<"resource-id", "content-desc", "class", "checked", "enabled",
               "clickable", "focusable", "selected", "index", "package">>
IGNORE_PREFIXES == <<"textSize", "textStyle", "textColor", "background", "alpha", "font">>
\* TEXT_SIMILARITY_THRESHOLD = 0.9
TEXT_SIMILARITY_THRESHOLD == <<9, 10>>

InSeq(x, s) == \E i \in 1..Len(s) : s[i] = x

\* rationals
RLess(x, y) == x[1] * y[2] < y[1] * x[2]

-----------------------------------------------------------------------------
(* normalize_text, strip_ns, parse_bounds *)

normalize_text(v) ==
    IF ~Truthy(v) THEN "" ELSE Strip(Join(Split(v.val), " "))

\* tag.split("}", 1)[1]
RECURSIVE AfterBrace(_)
AfterBrace(s) == IF Head(s) = "}" THEN Tail(s) ELSE AfterBrace(Tail(s))

strip_ns(tag) ==
    IF tag # "" /\ StartsWith(tag, "{") THEN AfterBrace(tag) ELSE tag

\* int(s) on the model's characters: an optional sign, then digits
RECURSIVE DigitsValue(_, _)
DigitsValue(s, acc) ==
    IF s = "" THEN acc ELSE DigitsValue(Tail(s), 10 * acc + DigitVal(Head(s)))
AllDigits(s) == s # "" /\ \A i \in 1..Len(s) : IsDigit(Ch(s, i))
int(s) ==
    IF s # "" /\ Head(s) \in {"+", "-"}
    THEN IF AllDigits(Tail(s))
         THEN Tuple(<<(IF Head(s) = "-" THEN -1 ELSE 1) * DigitsValue(Tail(s), 0)>>)
         ELSE Raised("ValueError")
    ELSE IF AllDigits(s) THEN Tuple(<<DigitsValue(s, 0)>>)
         ELSE Raised("ValueError")

\* x, y = map(int, seg.split(","))
IntPair(seg) ==
    LET c == SplitOn(seg, ",") IN
    IF Len(c) >= 1 /\ int(c[1]).tag = "raise" THEN Raised("ValueError")
    ELSE IF Len(c) >= 2 /\ int(c[2]).tag = "raise" THEN Raised("ValueError")
    ELSE IF Len(c) # 2 THEN Raised("ValueError")
    ELSE Tuple(<<int(c[1]).val[1], int(c[2]).val[1]>>)

\* the body of the try block
parse_bounds_try(s) ==
    LET p == Split(Remove(Remove(Replace2(s, "][", " "), "["), "]")) IN
    IF Len(p) < 1 THEN Raised("IndexError")
    ELSE IF IntPair(p[1]).tag = "raise" THEN IntPair(p[1])
    ELSE IF Len(p) < 2 THEN Raised("IndexError")
    ELSE IF IntPair(p[2]).tag = "raise" THEN IntPair(p[2])
    ELSE Tuple(IntPair(p[1]).val \o IntPair(p[2]).val)

\* parse_bounds without its except clause: the exception leaves the function
Reraise(r) == r

\* except Exception: return None
CatchException(r) == IF r.tag = "raise" THEN None ELSE r

parse_bounds(v) ==
    IF ~Truthy(v) THEN None ELSE CatchException(parse_bounds_try(v.val))

-----------------------------------------------------------------------------
(* str_similarity: difflib.SequenceMatcher(None, a, b).ratio() *)

\* the length of the common run of a from i and b from j
RECURSIVE RunLen(_, _, _, _, _, _)
RunLen(a, b, i, j, ahi, bhi) ==
    IF i <= ahi /\ j <= bhi /\ Ch(a, i) = Ch(b, j)
    THEN 1 + RunLen(a, b, i + 1, j + 1, ahi, bhi)
    ELSE 0

\* find_longest_match(alo, ahi, blo, bhi), positions from 1 and both ends
\* inclusive: the longest block, the one starting earliest in a and, among
\* those, earliest in b.  <<i, j, k>>, k = 0 when nothing matches.
find_longest_match(a, b, alo, ahi, blo, bhi) ==
    LET C == {<<i, j, RunLen(a, b, i, j, ahi, bhi)>> : i \in alo..ahi, j \in blo..bhi}
        Better(x, y) == \/ x[3] > y[3]
                        \/ x[3] = y[3] /\ x[1] < y[1]
                        \/ x[3] = y[3] /\ x[1] = y[1] /\ x[2] < y[2]
    IN  IF C = {} THEN <<alo, blo, 0>>
        ELSE CHOOSE x \in C : \A y \in C \ {x} : Better(x, y)

\* the total size of get_matching_blocks()
RECURSIVE MatchedCount(_, _, _, _, _, _)
MatchedCount(a, b, alo, ahi, blo, bhi) ==
    IF alo > ahi \/ blo > bhi THEN 0
    ELSE LET m == find_longest_match(a, b, alo, ahi, blo, bhi) IN
         IF m[3] = 0 THEN 0
         ELSE m[3] + MatchedCount(a, b, alo, m[1] - 1, blo, m[2] - 1)
                   + MatchedCount(a, b, m[1] + m[3], ahi, m[2] + m[3], bhi)

\* ratio(): 2.0 * matches / length, and 1.0 when both strings are empty
str_similarity(a, b) ==
    LET length == Len(a) + Len(b) IN
    IF length = 0 THEN <<1, 1>>
    ELSE <<2 * MatchedCount(a, b, 1, Len(a), 1, Len(b)), length>>


-----------------------------------------------------------------------------
(* Parsed trees.  An element tree is a record: name (which document it was  *)
(* parsed from), tag[e], attrib[e] and parent[e] for the elements 1..n in   *)
(* document order of creation; parent[1] = 0.  id(elem) is <<name, e>>.     *)

\* list(elem): the children of e, in order
Children(tree, e) ==
    LET RECURSIVE From(_)
        From(i) == IF i > Len(tree.parent) THEN <<>>
                   ELSE (IF tree.parent[i] = e THEN <<i>> ELSE <<>>) \o From(i + 1)
    IN  From(1)

\* str(n) for n >= 0, as an f-string formats an index
RECURSIVE IntStr(_)
IntStr(n) ==
    IF n < 10 THEN Ch("0123456789", n + 1)
    ELSE IntStr(n \div 10) \o Ch("0123456789", (n % 10) + 1)

STATE_KEYS == <<"checked", "enabled", "clickable", "selected", "focusable">>

\* the filtered dict of node_info
FilteredAttrib(attrib) ==
    LET Keep(k) ==
            \/ InSeq(k, KEY_ATTRS)
            \/ /\ ~\E i \in 1..Len(IGNORE_PREFIXES) : StartsWith(k, IGNORE_PREFIXES[i])
               /\ InSeq(k, STATE_KEYS)
        keys == {k \in DOMAIN attrib : Keep(k)}
    IN  [k \in keys |-> attrib[k]]

node_info(tree, e, path) ==
    LET attrib == tree.attrib[e]
        rid == Or(Or(Get(attrib, "resource-id"), Get(attrib, "resource_id")),
                  Get(attrib, "id"))
        content == normalize_text(Or(Or(Get(attrib, "content-desc"),
                                        Get(attrib, "content_desc")),
                                     Get(attrib, "contentDescription")))
        text == normalize_text(Get(attrib, "text"))
        cls == Or(Or(Get(attrib, "class"), Get(attrib, "className")),
                  Str(strip_ns(tree.tag[e])))
        bounds == parse_bounds(Get(attrib, "bounds"))
    IN  [id |-> rid, class |-> cls, content |-> content, text |-> text,
         bounds |-> bounds, attrib |-> FilteredAttrib(attrib), path |-> path,
         elem |-> <<tree.name, e>>]

\* stack = [(root, "/" + strip_ns(root.tag) + "[0]")]
InitialStack(tree) == <<[elem |-> 1, path |-> "/" \o strip_ns(tree.tag[1]) \o "[0]"]>>

\* the children pushed in document order, not reversed
PushedChildrenInOrder(tree, elem, path) ==
    LET children == Children(tree, elem) IN
    [i \in 1..Len(children) |->
        [elem |-> children[i],
         path |-> path \o "/" \o strip_ns(tree.tag[children[i]]) \o "[" \o IntStr(i - 1) \o "]"]]

\* the entries one iteration pushes for the children of elem: the children
\* reversed, each with its own index among its siblings
PushedChildren(tree, elem, path) ==
    LET children == Children(tree, elem) IN
    [i \in 1..Len(children) |->
        LET idx == Len(children) - 1 - (i - 1)
            child == children[idx + 1]
        IN  [elem |-> child,
             path |-> path \o "/" \o strip_ns(tree.tag[child]) \o "[" \o IntStr(idx) \o "]"]]

\* one iteration of the while loop: <<stack, nodes>> after it
CollectIteration(tree, stk, nodes) ==
    LET top == stk[Len(stk)]
        rest == SubSeq(stk, 1, Len(stk) - 1)
    IN  <<rest \o PushedChildren(tree, top.elem, top.path),
          Append(nodes, node_info(tree, top.elem, top.path))>>

RECURSIVE CollectLoop(_, _, _)
CollectLoop(tree, stk, nodes) ==
    IF stk = <<>> THEN nodes
    ELSE LET n == CollectIteration(tree, stk, nodes) IN CollectLoop(tree, n[1], n[2])

collect_nodes(tree) == CollectLoop(tree, InitialStack(tree), <<>>)

-----------------------------------------------------------------------------
(* match_by_resource_id *)

\* the keys of a by-id dict, in insertion order
RECURSIVE IdKeys(_, _)
IdKeys(nodes, seen) ==
    IF nodes = <<>> THEN seen
    ELSE LET n == Head(nodes) IN
         IdKeys(Tail(nodes),
                IF Truthy(n.id) /\ ~InSeq(n.id.val, seen) THEN Append(seen, n.id.val)
                ELSE seen)

\* by_id[rid]: the nodes carrying rid, in collection order
IdGroup(nodes, rid) ==
    SelectSeq(nodes, LAMBDA n : Truthy(n.id) /\ n.id.val = rid)

\* the groups zipped: the longer group's tail is lost
GroupPairsZip(base_group, input_group) ==
    [i \in 1..Min(Len(base_group), Len(input_group)) |-> <<base_group[i], input_group[i]>>]

\* one index too many: range(maxlen + 1)
GroupPairsOneMore(base_group, input_group) ==
    [i \in 1..(Max(Len(base_group), Len(input_group)) + 1) |->
        <<IF i <= Len(base_group) THEN base_group[i] ELSE None,
          IF i <= Len(input_group) THEN input_group[i] ELSE None>>]

\* the pairs of one rid
GroupPairs(base_group, input_group) ==
    [i \in 1..Max(Len(base_group), Len(input_group)) |->
        <<IF i <= Len(base_group) THEN base_group[i] ELSE None,
          IF i <= Len(input_group) THEN input_group[i] ELSE None>>]

RECURSIVE IdMatches(_, _, _)
IdMatches(rids, b_nodes, i_nodes) ==
    IF rids = <<>> THEN <<>>
    ELSE GroupPairs(IdGroup(b_nodes, Head(rids)), IdGroup(i_nodes, Head(rids)))
         \o IdMatches(Tail(rids), b_nodes, i_nodes)

\* the returned matches
match_by_resource_id(b_nodes, i_nodes) ==
    IdMatches(IdKeys(b_nodes, <<>>), b_nodes, i_nodes)

\* used_input after the call
UsedAfterIdMatch(matches, used) ==
    used \cup {matches[i][2].elem : i \in {j \in 1..Len(matches) : matches[j][2] # None}}

-----------------------------------------------------------------------------
(* match_remaining *)

RMax(x, y) == IF RLess(x, y) THEN y ELSE x
RAdd(x, y) == <<x[1] * y[2] + y[1] * x[2], x[2] * y[2]>>
RMul(x, y) == <<x[1] * y[1], x[2] * y[2]>>

CONTENT_FACTOR == <<12, 10>>
OVERLAP_BONUS == <<5, 100>>
ACCEPT_THRESHOLD == <<4, 10>>

\* if ix2 > ix1 and iy2 > iy1
Overlaps(ab, bb) ==
    LET ix1 == Max(ab[1], bb[1])
        iy1 == Max(ab[2], bb[2])
        ix2 == Min(ab[3], bb[3])
        iy2 == Min(ab[4], bb[4])
    IN  ix2 > ix1 /\ iy2 > iy1

\* the score of candidate b for a (both of one class)
MatchScore(a, b) ==
    LET s == RMax(RMul(str_similarity(a.content, b.content), CONTENT_FACTOR),
                  str_similarity(a.text, b.text))
    IN  IF Truthy(a.bounds) /\ Truthy(b.bounds) /\ Overlaps(a.bounds.val, b.bounds.val)
        THEN RAdd(s, OVERLAP_BONUS)
        ELSE s

\* the scan with `score >= best_score`: among equal scores the last one wins
RECURSIVE BestCandidateLastTie(_, _, _, _)
BestCandidateLastTie(a, cands, best, best_score) ==
    IF cands = <<>> THEN <<best, best_score>>
    ELSE LET b == Head(cands) IN
         IF a.class # b.class THEN BestCandidateLastTie(a, Tail(cands), best, best_score)
         ELSE IF ~RLess(MatchScore(a, b), best_score)
              THEN BestCandidateLastTie(a, Tail(cands), b, MatchScore(a, b))
              ELSE BestCandidateLastTie(a, Tail(cands), best, best_score)

\* for b in unmatched_input: ... ; <<best, best_score>> after the loop
RECURSIVE BestCandidate(_, _, _, _)
BestCandidate(a, cands, best, best_score) ==
    IF cands = <<>> THEN <<best, best_score>>
    ELSE LET b == Head(cands) IN
         IF a.class # b.class THEN BestCandidate(a, Tail(cands), best, best_score)
         ELSE IF RLess(best_score, MatchScore(a, b))
              THEN BestCandidate(a, Tail(cands), b, MatchScore(a, b))
              ELSE BestCandidate(a, Tail(cands), best, best_score)

\* the chosen candidate is left in the pool
KeepAll(s, x) == s

\* list.remove(x): without its first element equal to x
RECURSIVE RemoveFirst(_, _)
RemoveFirst(s, x) ==
    IF s = <<>> THEN <<>>
    ELSE IF Head(s) = x THEN Tail(s)
    ELSE <<Head(s)>> \o RemoveFirst(Tail(s), x)

\* the best candidate is taken whatever its score
AcceptedAny(best, best_score) == best # None

\* whether the best candidate is taken
Accepted(best, best_score) == best # None /\ RLess(ACCEPT_THRESHOLD, best_score)

\* for a in base_noid: ... ; <<matches, unmatched_input>> after the loop
RECURSIVE GreedyLoop(_, _, _)
GreedyLoop(base_noid, unmatched, matches) ==
    IF base_noid = <<>> THEN <<matches, unmatched>>
    ELSE LET a == Head(base_noid)
             r == BestCandidate(a, unmatched, None, <<0, 1>>)
         IN  IF Accepted(r[1], r[2])
             THEN GreedyLoop(Tail(base_noid), RemoveFirst(unmatched, r[1]),
                             Append(matches, <<a, r[1]>>))
             ELSE GreedyLoop(Tail(base_noid), unmatched, Append(matches, <<a, None>>))

\* the pool without the test of the identifier
InputAnyId(i_nodes, used) == SelectSeq(i_nodes, LAMBDA n : n.elem \notin used)

BaseNoId(b_nodes) == SelectSeq(b_nodes, LAMBDA n : ~Truthy(n.id))
InputNoId(i_nodes, used) ==
    SelectSeq(i_nodes, LAMBDA n : ~Truthy(n.id) /\ n.elem \notin used)

match_remaining(b_nodes, i_nodes, used) ==
    LET r == GreedyLoop(BaseNoId(b_nodes), InputNoId(i_nodes, used), <<>>)
    IN  r[1] \o [i \in 1..Len(r[2]) |-> <<None, r[2][i]>>]


-----------------------------------------------------------------------------
(* significant_text_change, compare_nodes *)

\* every change of the normalized text counts
AnyTextChange(a_text, b_text) ==
    normalize_text(Str(a_text)) # normalize_text(Str(b_text))

significant_text_change(a_text, b_text) ==
    LET a_norm == normalize_text(Str(a_text))
        b_norm == normalize_text(Str(b_text))
    IN  IF a_norm = b_norm THEN FALSE
        ELSE RLess(str_similarity(a_norm, b_norm), TEXT_SIMILARITY_THRESHOLD)

\* for k in sorted(keys): if va != vb: diffs.append(attr_change)
AttrChanges(a, b) ==
    LET keys == Sorted(DOMAIN a.attrib \cup DOMAIN b.attrib)
        RECURSIVE Over(_)
        Over(ks) ==
            IF ks = <<>> THEN <<>>
            ELSE LET k == Head(ks)
                     va == Get(a.attrib, k)
                     vb == Get(b.attrib, k)
                 IN  (IF va # vb
                      THEN <<[type |-> "attr_change", path |-> a.path, class |-> a.class,
                              attr |-> k, from |-> va, to |-> vb]>>
                      ELSE <<>>) \o Over(Tail(ks))
    IN  Over(keys)

TextChange(a, b) ==
    IF significant_text_change(a.text, b.text)
    THEN <<[type |-> "text_change", path |-> a.path, class |-> a.class,
            from |-> Str(a.text), to |-> Str(b.text)]>>
    ELSE <<>>

BoundsChange(a, b) ==
    IF Truthy(a.bounds) /\ Truthy(b.bounds) /\ a.bounds # b.bounds
    THEN <<[type |-> "bounds_change", path |-> a.path, class |-> a.class,
            from |-> a.bounds, to |-> b.bounds]>>
    ELSE <<>>

\* the body of the loop of compare_nodes: what one pair appends to diffs
ComparePair(a, b) ==
    IF a = None /\ b # None
    THEN <<[type |-> "added", path |-> b.path, class |-> b.class, id |-> b.id,
            text |-> Str(b.text)]>>
    ELSE IF b = None /\ a # None
    THEN <<[type |-> "removed", path |-> a.path, class |-> a.class, id |-> a.id,
            text |-> Str(a.text)]>>
    ELSE IF a = None /\ b = None THEN <<>>
    ELSE AttrChanges(a, b) \o TextChange(a, b) \o BoundsChange(a, b)

RECURSIVE compare_nodes(_)
compare_nodes(ps) ==
    IF ps = <<>> THEN <<>>
    ELSE ComparePair(Head(ps)[1], Head(ps)[2]) \o compare_nodes(Tail(ps))

-----------------------------------------------------------------------------
(* calculate_difference_score.  Weights are counted in tenths, the returned *)
(* score in units of 0.0001.                                                *)

\* weights.get(type, 0.5), in tenths
Weight10(type) ==
    CASE type = "added" -> 10
      [] type = "removed" -> 10
      [] type = "attr_change" -> 5
      [] type = "text_change" -> 7
      [] type = "bounds_change" -> 3
      [] OTHER -> 5

\* sum(weights.get(d["type"], 0.5) for d in diffs), in tenths
RECURSIVE WeightedDiffs10(_)
WeightedDiffs10(ds) ==
    IF ds = <<>> THEN 0 ELSE Weight10(Head(ds).type) + WeightedDiffs10(Tail(ds))

\* round(x, 4) for x = num/den >= 0, in units of 0.0001: to the nearest, an
\* exact half to the even neighbour
Round4(num, den) ==
    LET x == 10000 * num
        q == x \div den
        r == x % den
    IN  IF 2 * r < den THEN q
        ELSE IF 2 * r > den THEN q + 1
        ELSE IF q % 2 = 0 THEN q ELSE q + 1

\* the ratio without the cap at 1.0
UncappedRatio(w10, total) == <<w10, 10 * total>>

\* min(weighted_diffs / total_nodes, 1.0) as a rational
CappedRatio(w10, total) ==
    IF w10 >= 10 * total THEN <<1, 1>> ELSE <<w10, 10 * total>>

calculate_difference_score(ds, total) ==
    IF total = 0 THEN 0
    ELSE LET score == CappedRatio(WeightedDiffs10(ds), total)
         IN  Round4(score[1], score[2])


-----------------------------------------------------------------------------
(* Inputs: elements and trees *)

\* the elements of an Android dump, as the tree parser hands them over
Hierarchy == [tag |-> "hierarchy", attrib |-> ("rotation" :> "0")]
BtnA == [tag |-> "node",
         attrib |-> ("resource-id" :> "r1") @@ ("class" :> "Button") @@ ("text" :> "a")
                    @@ ("checked" :> "true") @@ ("bounds" :> "[0,0][2,2]")]
BtnB == [tag |-> "node",
         attrib |-> ("resource-id" :> "r1") @@ ("class" :> "Button") @@ ("text" :> "b")
                    @@ ("checked" :> "false") @@ ("bounds" :> "[0,0][3,2]")
                    @@ ("textSize" :> "12")]
BtnNew == [tag |-> "node",
           attrib |-> ("resource-id" :> "r2") @@ ("class" :> "Button") @@ ("text" :> "a")]
TxtAB == [tag |-> "node",
          attrib |-> ("resource-id" :> "") @@ ("class" :> "Text") @@ ("content-desc" :> "ab")
                     @@ ("text" :> "a") @@ ("bounds" :> "[0,0][2,2]")]
TxtAC == [tag |-> "node",
          attrib |-> ("class" :> "Text") @@ ("content-desc" :> "ac") @@ ("text" :> " a ")]
TxtC == [tag |-> "node",
         attrib |-> ("class" :> "Text") @@ ("content-desc" :> "c") @@ ("text" :> "b")
                    @@ ("bounds" :> "[1,1][3,3]")]
\* no content, so that every pair of them scores the same
PlainA == [tag |-> "node",
           attrib |-> ("class" :> "Text") @@ ("text" :> "a") @@ ("bounds" :> "[5,5][5,5]")]
PlainB == [tag |-> "node",
           attrib |-> ("class" :> "Text") @@ ("text" :> "b") @@ ("bounds" :> "[0,0][4,4]")]
Empty == [tag |-> "{ns}Text", attrib |-> ("text" :> "  ") @@ ("bounds" :> "[0,0][4,4")]

MainKinds == {BtnA, BtnNew, TxtAB, TxtAC, TxtC}
SelfKinds == {Hierarchy, BtnA, BtnB, TxtAB, TxtC, PlainA, PlainB, Empty}

\* the shapes of a tree of n elements: parent[1] = 0, parent[i] < i
Shapes(n) == {p \in [1..n -> 0..(n - 1)] : p[1] = 0 /\ \A i \in 2..n : p[i] \in 1..(i - 1)}

\* the tree called name of shape p whose element i is k[i]
MakeTree(name, p, k) ==
    [name |-> name, parent |-> p,
     tag |-> [i \in 1..Len(p) |-> k[i].tag],
     attrib |-> [i \in 1..Len(p) |-> k[i].attrib]]

\* a dump of n elements: a hierarchy root with nodes of Kinds as its children
Flat(n) == [i \in 1..n |-> IF i = 1 THEN 0 ELSE 1]
Dumps(name, n, Kinds) ==
    {MakeTree(name, Flat(n), (1 :> Hierarchy) @@ k) : k \in [2..n -> Kinds]}

\* any tree of n elements of Kinds
Trees(name, n, Kinds) ==
    {MakeTree(name, p, k) : p \in Shapes(n), k \in [1..n -> Kinds]}

MaxNodes == 3
MaxSelfNodes == 3

-----------------------------------------------------------------------------
(* main: the pipeline on two parsed trees *)

Idle == /\ stack = <<>>
        /\ total_nodes = 0
        /\ prev_score = 0
        /\ bounds_str = ""
        /\ bounds_out = None

MainStart == /\ pc = "parsed"
             /\ base_nodes = <<>>
             /\ input_nodes = <<>>
             /\ used_input = {}
             /\ id_pairs = <<>>
             /\ pairs = <<>>
             /\ diffs = <<>>
             /\ diff_score = 0
             /\ Idle

Init == /\ \E n \in 1..MaxNodes : base_root \in Dumps("base", n, MainKinds)
        /\ \E n \in 1..MaxNodes : input_root \in Dumps("input", n, MainKinds)
        /\ MainStart

\* a tree and an exact structural copy of it
CopyOf(tree) == [tree EXCEPT !.name = "input"]

InitSelf == /\ \E n \in 1..MaxSelfNodes : base_root \in Trees("base", n, SelfKinds)
            /\ input_root = CopyOf(base_root)
            /\ MainStart

\* base_nodes = collect_nodes(base_root); input_nodes = collect_nodes(input_root)
Collect ==
    /\ pc = "parsed"
    /\ base_nodes' = collect_nodes(base_root)
    /\ input_nodes' = collect_nodes(input_root)
    /\ pc' = "collected"
    /\ UNCHANGED <<base_root, input_root, stack, used_input, id_pairs, pairs, diffs,
                   total_nodes, diff_score, prev_score, bounds_str, bounds_out>>

\* used_input = set(); pairs.extend(match_by_resource_id(...))
MatchById ==
    /\ pc = "collected"
    /\ id_pairs' = match_by_resource_id(base_nodes, input_nodes)
    /\ used_input' = UsedAfterIdMatch(id_pairs', {})
    /\ pairs' = id_pairs'
    /\ pc' = "id_matched"
    /\ UNCHANGED <<base_root, input_root, stack, base_nodes, input_nodes, diffs,
                   total_nodes, diff_score, prev_score, bounds_str, bounds_out>>

\* pairs.extend(match_remaining(...))
MatchRemaining ==
    /\ pc = "id_matched"
    /\ pairs' = pairs \o match_remaining(base_nodes, input_nodes, used_input)
    /\ pc' = "matched"
    /\ UNCHANGED <<base_root, input_root, stack, base_nodes, input_nodes, used_input,
                   id_pairs, diffs, total_nodes, diff_score, prev_score, bounds_str,
                   bounds_out>>

\* diffs = compare_nodes(pairs)
Compare ==
    /\ pc = "matched"
    /\ diffs' = compare_nodes(pairs)
    /\ pc' = "compared"
    /\ UNCHANGED <<base_root, input_root, stack, base_nodes, input_nodes, used_input,
                   id_pairs, pairs, total_nodes, diff_score, prev_score, bounds_str,
                   bounds_out>>

\* diff_score = calculate_difference_score(diffs, len(base_nodes))
Score ==
    /\ pc = "compared"
    /\ diff_score' = calculate_difference_score(diffs, Len(base_nodes))
    /\ pc' = "done"
    /\ UNCHANGED <<base_root, input_root, stack, base_nodes, input_nodes, used_input,
                   id_pairs, pairs, diffs, total_nodes, prev_score, bounds_str,
                   bounds_out>>

Next == Collect \/ MatchById \/ MatchRemaining \/ Compare \/ Score

Spec == Init /\ [][Next]_vars

SpecSelf == InitSelf /\ [][Next]_vars


-----------------------------------------------------------------------------
(* collect_nodes, one iteration of its loop at a time *)

MaxTreeNodes == 4

Tags == {"node", "{ns}item"}

\* elements that differ in their tags only
Tagged(t) == [tag |-> t, attrib |-> ("class" :> "View")]

InitCollect ==
    /\ \E n \in 1..MaxTreeNodes :
           base_root \in {MakeTree("base", p, [i \in 1..n |-> Tagged(t[i])]) :
                             p \in Shapes(n), t \in [1..n -> Tags]}
    /\ pc = "collect_loop"
    /\ stack = InitialStack(base_root)
    /\ base_nodes = <<>>
    /\ input_root = None
    /\ input_nodes = <<>>
    /\ used_input = {}
    /\ id_pairs = <<>>
    /\ pairs = <<>>
    /\ diffs = <<>>
    /\ diff_score = 0
    /\ total_nodes = 0
    /\ prev_score = 0
    /\ bounds_str = ""
    /\ bounds_out = None

\* while stack: pop, append node_info, push the children reversed
CollectStep ==
    /\ pc = "collect_loop"
    /\ stack # <<>>
    /\ stack' = CollectIteration(base_root, stack, base_nodes)[1]
    /\ base_nodes' = CollectIteration(base_root, stack, base_nodes)[2]
    /\ UNCHANGED <<pc, base_root, input_root, input_nodes, used_input, id_pairs, pairs,
                   diffs, total_nodes, diff_score, prev_score, bounds_str, bounds_out>>

\* return nodes
CollectReturn ==
    /\ pc = "collect_loop"
    /\ stack = <<>>
    /\ pc' = "collect_returned"
    /\ UNCHANGED <<base_root, input_root, stack, base_nodes, input_nodes, used_input,
                   id_pairs, pairs, diffs, total_nodes, diff_score, prev_score,
                   bounds_str, bounds_out>>

NextCollect == CollectStep \/ CollectReturn

SpecCollect == InitCollect /\ [][NextCollect]_vars

-----------------------------------------------------------------------------
(* calculate_difference_score on a growing difference list *)

MaxDiffs == 3
MaxSmallTree == 4
LargeTree == 6001

DiffTypes == {"added", "removed", "attr_change", "text_change", "bounds_change", "moved"}
TreeSizes == (0..MaxSmallTree) \cup {LargeTree}

InitScore ==
    /\ pc = "score_call"
    /\ diffs = <<>>
    /\ total_nodes \in TreeSizes
    /\ diff_score = 0
    /\ prev_score = 0
    /\ base_root = None
    /\ input_root = None
    /\ stack = <<>>
    /\ base_nodes = <<>>
    /\ input_nodes = <<>>
    /\ used_input = {}
    /\ id_pairs = <<>>
    /\ pairs = <<>>
    /\ bounds_str = ""
    /\ bounds_out = None

\* calculate_difference_score(diffs, total_nodes); prev_score keeps the score
\* returned for the list before its last element was appended
ScoreCall ==
    /\ pc = "score_call"
    /\ diff_score' = calculate_difference_score(diffs, total_nodes)
    /\ prev_score' = diff_score
    /\ pc' = "score_returned"
    /\ UNCHANGED <<base_root, input_root, stack, base_nodes, input_nodes, used_input,
                   id_pairs, pairs, diffs, total_nodes, bounds_str, bounds_out>>

\* one more difference is appended to the list
AppendDiff ==
    /\ pc = "score_returned"
    /\ Len(diffs) < MaxDiffs
    /\ \E t \in DiffTypes : diffs' = Append(diffs, [type |-> t])
    /\ pc' = "score_call"
    /\ UNCHANGED <<base_root, input_root, stack, base_nodes, input_nodes, used_input,
                   id_pairs, pairs, total_nodes, diff_score, prev_score, bounds_str,
                   bounds_out>>

NextScore == ScoreCall \/ AppendDiff

SpecScore == InitScore /\ [][NextScore]_vars


-----------------------------------------------------------------------------
(* parse_bounds on one string *)

MaxCoord == 10

\* str(n) for any integer
IntText(n) == IF n < 0 THEN "-" \o IntStr(-n) ELSE IntStr(n)

\* the strings handed to parse_bounds: the literal format and its deviations
BoundsInputs ==
    {o1 \o x1 \o c1 \o y1 \o mid \o x2 \o "," \o y2 \o o2 \o extra :
        o1 \in {"[", ""},
        x1 \in {IntText(n) : n \in -1..MaxCoord} \cup {"a", ""},
        c1 \in {",", ""},
        y1 \in {"7", "b"},
        mid \in {"][", " ", "", "]"},
        x2 \in {"3", "-4", ""},
        y2 \in {"12", "c"},
        o2 \in {"]", ""},
        extra \in {"", "[5,6]", "x"}}
    \cup {""}

InitBounds ==
    /\ pc = "bounds_call"
    /\ bounds_str \in BoundsInputs
    /\ bounds_out = None
    /\ base_root = None
    /\ input_root = None
    /\ stack = <<>>
    /\ base_nodes = <<>>
    /\ input_nodes = <<>>
    /\ used_input = {}
    /\ id_pairs = <<>>
    /\ pairs = <<>>
    /\ diffs = <<>>
    /\ total_nodes = 0
    /\ diff_score = 0
    /\ prev_score = 0

\* bounds = parse_bounds(bounds_str)
ParseBounds ==
    /\ pc = "bounds_call"
    /\ bounds_out' = parse_bounds(Str(bounds_str))
    /\ pc' = "bounds_returned"
    /\ UNCHANGED <<base_root, input_root, stack, base_nodes, input_nodes, used_input,
                   id_pairs, pairs, diffs, total_nodes, diff_score, prev_score,
                   bounds_str>>

NextBounds == ParseBounds

SpecBounds == InitBounds /\ [][NextBounds]_vars

-----------------------------------------------------------------------------
(* compare_nodes on one pair *)

BtnUnchecked == [tag |-> "node",
                 attrib |-> ("resource-id" :> "r1") @@ ("class" :> "Button")
                            @@ ("text" :> "a") @@ ("checked" :> "false")
                            @@ ("bounds" :> "[0,0][2,2]")]
BtnEnabled == [tag |-> "node",
               attrib |-> ("resource-id" :> "r1") @@ ("class" :> "Button")
                          @@ ("text" :> "a") @@ ("checked" :> "true")
                          @@ ("enabled" :> "") @@ ("bounds" :> "[0,0][2,2]")]
BtnNoBounds == [tag |-> "node",
                attrib |-> ("resource-id" :> "r1") @@ ("class" :> "Button")
                           @@ ("text" :> "a") @@ ("checked" :> "true")
                           @@ ("bounds" :> "[0,0]")]
Save == [tag |-> "node", attrib |-> ("class" :> "Button") @@ ("text" :> "Save")]
SaveBlank == [tag |-> "node", attrib |-> ("class" :> "Button") @@ ("text" :> "Save ")]
Cancel == [tag |-> "node", attrib |-> ("class" :> "Button") @@ ("text" :> "Cancel")]
LongB == [tag |-> "node", attrib |-> ("class" :> "Button") @@ ("text" :> "aaaaaaaaab")]
LongC == [tag |-> "node", attrib |-> ("class" :> "Button") @@ ("text" :> "aaaaaaaaac")]

CompareKinds == {BtnA, BtnB, BtnUnchecked, BtnEnabled, BtnNoBounds, TxtAB,
                 Save, SaveBlank, Cancel, LongB, LongC}

\* the Node of a single element k parsed from document name
NodeOf(name, k) == node_info(MakeTree(name, <<0>>, <<k>>), 1, "/" \o strip_ns(k.tag) \o "[0]")

InitCompare ==
    /\ pc = "matched"
    /\ \E a \in {NodeOf("base", k) : k \in CompareKinds} \cup {None},
          b \in {NodeOf("input", k) : k \in CompareKinds} \cup {None} :
            /\ ~(a = None /\ b = None)
            /\ pairs = <<<<a, b>>>>
    /\ diffs = <<>>
    /\ base_root = None
    /\ input_root = None
    /\ stack = <<>>
    /\ base_nodes = <<>>
    /\ input_nodes = <<>>
    /\ used_input = {}
    /\ id_pairs = <<>>
    /\ total_nodes = 0
    /\ diff_score = 0
    /\ prev_score = 0
    /\ bounds_str = ""
    /\ bounds_out = None

NextCompare == Compare

SpecCompare == InitCompare /\ [][NextCompare]_vars


-----------------------------------------------------------------------------
(* Properties *)

Matched == pc \in {"matched", "compared", "done"}
Compared == pc \in {"compared", "done"}

\* what match_remaining returned: the pairs after those of match_by_resource_id
rem_pairs == SubSeq(pairs, Len(id_pairs) + 1, Len(pairs))

NoId(n) == ~Truthy(n.id)
Count(seq, P(_)) == Cardinality({k \in 1..Len(seq) : P(seq[k])})

\* C1: comparing a tree with an exact structural copy of itself gives an
\* empty difference list and the score 0.0, whatever the tree holds.
C1_SelfCompareIsEmpty ==
    /\ Compared => diffs = <<>>
    /\ pc = "done" => diff_score = 0

\* a compared three-element tree with an identifier-bearing node, an
\* identifier-less node with empty text and another identifier-less node of
\* the same class whose rectangle overlaps it
C1_Witness ==
    /\ pc = "done"
    /\ Len(base_nodes) = 3
    /\ \E i, j, k \in 1..3 :
          /\ i # j
          /\ Truthy(base_nodes[k].id)
          /\ NoId(base_nodes[i]) /\ NoId(base_nodes[j])
          /\ base_nodes[i].class = base_nodes[j].class
          /\ base_nodes[i].text = ""
          /\ Truthy(base_nodes[i].bounds) /\ Truthy(base_nodes[j].bounds)
          /\ Overlaps(base_nodes[i].bounds.val, base_nodes[j].bounds.val)

\* an input node carrying an identifier no base node carries
Orphan(n) == Truthy(n.id) /\ \A j \in 1..Len(base_nodes) : base_nodes[j].id # n.id

\* the whole comparison of the collected base nodes with i_nodes
DiffsOf(i_nodes) ==
    LET m == match_by_resource_id(base_nodes, i_nodes)
    IN  compare_nodes(m \o match_remaining(base_nodes, i_nodes, UsedAfterIdMatch(m, {})))

\* C2: an input node whose identifier is on no base node is in no pair of
\* either matcher, produces no difference (no `added`), and the differences
\* and the score are those of the comparison without it.
C2_OrphanInputDropped ==
    pc \in {"id_matched", "matched", "compared", "done"} =>
        \A i \in 1..Len(input_nodes) :
            Orphan(input_nodes[i]) =>
                /\ \A k \in 1..Len(pairs) : pairs[k][2] # input_nodes[i]
                /\ input_nodes[i].elem \notin used_input
                /\ \A k \in 1..Len(diffs) :
                       ~(diffs[k].type = "added" /\ diffs[k].path = input_nodes[i].path)
                /\ Compared =>
                       diffs = DiffsOf(SelectSeq(input_nodes, LAMBDA n : n # input_nodes[i]))
                /\ pc = "done" =>
                       diff_score = calculate_difference_score(
                           DiffsOf(SelectSeq(input_nodes, LAMBDA n : ~Orphan(n))),
                           Len(base_nodes))

\* the known-limitation scenario: the base holds btn r1, the input holds it
\* and a node r2 that the base lacks, and nothing is reported
C2_Witness ==
    /\ pc = "done"
    /\ \E i \in 1..Len(input_nodes) : Orphan(input_nodes[i])
    /\ \E i \in 1..Len(input_nodes) : Truthy(input_nodes[i].id) /\ ~Orphan(input_nodes[i])
    /\ Len(base_nodes) = 2
    /\ diffs = <<>>

\* the nodes of seq carrying identifier rid, in order
WithId(seq, rid) == SelectSeq(seq, LAMBDA n : n.id = Str(rid))
BaseIds == {base_nodes[j].id.val : j \in {i \in 1..Len(base_nodes) : Truthy(base_nodes[i].id)}}

\* C4: for an identifier with m base and n input occurrences,
\* match_by_resource_id emits exactly max(m, n) pairs: (base_i, input_i),
\* then (base_i, absent) or (absent, input_i); and each (base_i, absent)
\* yields exactly one `removed` carrying the base path, class and identifier.
C4_OccurrencePairing ==
    /\ pc \in {"id_matched", "matched", "compared", "done"} =>
          \A rid \in BaseIds :
              LET bg == WithId(base_nodes, rid)
                  ig == WithId(input_nodes, rid)
                  ps == SelectSeq(id_pairs, LAMBDA q :
                            \/ q[1] # None /\ q[1].id = Str(rid)
                            \/ q[2] # None /\ q[2].id = Str(rid))
              IN  /\ Len(ps) = Max(Len(bg), Len(ig))
                  /\ \A i \in 1..Len(ps) :
                        /\ ps[i][1] = (IF i <= Len(bg) THEN bg[i] ELSE None)
                        /\ ps[i][2] = (IF i <= Len(ig) THEN ig[i] ELSE None)
    /\ Compared =>
          \A k \in 1..Len(id_pairs) :
              id_pairs[k][2] = None =>
                  LET a == id_pairs[k][1]
                      ds == SelectSeq(diffs, LAMBDA d : d.type = "removed" /\ d.path = a.path)
                  IN  /\ Len(ds) = 1
                      /\ ds[1].class = a.class
                      /\ ds[1].id = a.id
                      /\ Count(diffs, LAMBDA d : d.path = a.path /\ d.type # "added") = 1

\* one identifier twice in the base and once in the input
C4_Witness ==
    /\ pc = "done"
    /\ \E rid \in BaseIds :
          /\ Len(WithId(base_nodes, rid)) = 2
          /\ Len(WithId(input_nodes, rid)) = 1
    /\ \E k \in 1..Len(diffs) : diffs[k].type = "removed"

\* C6: no matcher ever builds a pair with both sides absent.
C6_NeverBothAbsent ==
    \A k \in 1..Len(pairs) : ~(pairs[k][1] = None /\ pairs[k][2] = None)

\* both matchers have produced a one-sided pair of each kind
C6_Witness ==
    /\ pc = "matched"
    /\ \E k \in 1..Len(id_pairs) : id_pairs[k][2] = None
    /\ \E k \in 1..Len(rem_pairs) : rem_pairs[k][1] = None
    /\ \E k \in 1..Len(rem_pairs) : rem_pairs[k][2] = None


\* the input nodes a base node visited as k-th by match_remaining may still
\* take: identifier-less, not chosen by an earlier base node
Available(k) ==
    SelectSeq(input_nodes, LAMBDA n :
        /\ NoId(n)
        /\ \A j \in 1..(k - 1) : rem_pairs[j][2] # n)

\* the candidates of a among them: those of its class
Candidates(a, k) == SelectSeq(Available(k), LAMBDA n : n.class = a.class)

\* the pairs of match_remaining that have a base side
based_pairs == SelectSeq(rem_pairs, LAMBDA q : q[1] # None)

\* C7: match_remaining visits the identifier-less base nodes in collection
\* order; a is paired with b only if b is identifier-less, of a's class, not
\* chosen earlier, scores strictly above 0.4 and highest among the candidates
\* still available, the earliest of those that tie; with no such candidate a
\* is emitted as (a, absent).
C7_GreedyBestCandidate ==
    Matched =>
        /\ [k \in 1..Len(based_pairs) |-> based_pairs[k][1]]
               = SelectSeq(base_nodes, NoId)
        /\ \A k \in 1..Len(based_pairs) : rem_pairs[k] = based_pairs[k]
        /\ \A k \in 1..Len(based_pairs) :
              LET a == based_pairs[k][1]
                  b == based_pairs[k][2]
                  cs == Candidates(a, k)
              IN  IF b = None
                  THEN \A i \in 1..Len(cs) : ~RLess(ACCEPT_THRESHOLD, MatchScore(a, cs[i]))
                  ELSE \E i \in 1..Len(cs) :
                          /\ cs[i] = b
                          /\ RLess(ACCEPT_THRESHOLD, MatchScore(a, b))
                          /\ \A j \in 1..Len(cs) : ~RLess(MatchScore(a, b), MatchScore(a, cs[j]))
                          /\ \A j \in 1..(i - 1) : RLess(MatchScore(a, cs[j]), MatchScore(a, b))

\* a base node took the later of two candidates of its class because it
\* scores higher, and another base node found only a candidate at or below
\* the threshold
C7_Witness ==
    /\ pc = "matched"
    /\ \E k \in 1..Len(based_pairs) :
          /\ based_pairs[k][2] # None
          /\ Candidates(based_pairs[k][1], k)[1] # based_pairs[k][2]
    /\ \E k \in 1..Len(based_pairs) :
          /\ based_pairs[k][2] = None
          /\ Candidates(based_pairs[k][1], k) # <<>>

\* C10: in the concatenated pair list every base node is the base side of
\* exactly one pair, every identifier-less input node is the input side of
\* exactly one pair, and no input node is the input side of two pairs.
C10_PairListPartition ==
    Matched =>
        /\ \A i \in 1..Len(base_nodes) :
              Count(pairs, LAMBDA q : q[1] = base_nodes[i]) = 1
        /\ \A i \in 1..Len(input_nodes) :
              /\ NoId(input_nodes[i]) => Count(pairs, LAMBDA q : q[2] = input_nodes[i]) = 1
              /\ Count(pairs, LAMBDA q : q[2] = input_nodes[i]) <= 1

\* three nodes on each side, with and without identifiers, some input node
\* heuristically matched and some input node in no pair at all
C10_Witness ==
    /\ pc = "matched"
    /\ Len(base_nodes) = 3 /\ Len(input_nodes) = 3
    /\ \E i \in 1..3 : Truthy(base_nodes[i].id)
    /\ \E k \in 1..Len(rem_pairs) :
          rem_pairs[k][1] # None /\ rem_pairs[k][2] # None /\ rem_pairs[k][1].path # "/hierarchy[0]"
    /\ \E i \in 1..3 : Count(pairs, LAMBDA q : q[2] = input_nodes[i]) = 0

\* the elements of the subtree of e, root first, then the subtrees of its
\* children from left to right
RECURSIVE PreOrder(_, _)
PreOrder(tree, e) ==
    LET RECURSIVE Sub(_)
        Sub(cs) == IF cs = <<>> THEN <<>> ELSE PreOrder(tree, Head(cs)) \o Sub(Tail(cs))
    IN  <<e>> \o Sub(Children(tree, e))

\* C8: collect_nodes returns every element exactly once, in pre-order, and
\* as many records as the tree has elements.
C8_PreOrderOnce ==
    pc = "collect_returned" =>
        /\ [i \in 1..Len(base_nodes) |-> base_nodes[i].elem[2]] = PreOrder(base_root, 1)
        /\ Len(base_nodes) = Len(base_root.parent)
        /\ \A e \in 1..Len(base_root.parent) :
              Count(base_nodes, LAMBDA n : n.elem = <<"base", e>>) = 1
        /\ base_nodes[1].elem = <<"base", 1>>

\* a tree whose pre-order differs from the order its elements were created
\* in: the root has two children and the first of them has a child
C8_Witness ==
    /\ pc = "collect_returned"
    /\ Len(base_root.parent) = 4
    /\ base_root.parent = <<0, 1, 1, 2>>
    /\ [i \in 1..4 |-> base_nodes[i].elem[2]] = <<1, 2, 4, 3>>


\* 0.0001 in units of 0.0001, and 1.0
OneE4 == 10000

IndexOf(s, c) ==
    IF \E i \in 1..Len(s) : Ch(s, i) = c
    THEN CHOOSE i \in 1..Len(s) : Ch(s, i) = c /\ \A j \in 1..(i - 1) : Ch(s, j) # c
    ELSE 0

\* a decimal integer: an optional minus sign and digits
IsIntLiteral(x) == IF x # "" /\ Head(x) = "-" THEN AllDigits(Tail(x)) ELSE AllDigits(x)
IntLiteralValue(x) ==
    IF Head(x) = "-" THEN -DigitsValue(Tail(x), 0) ELSE DigitsValue(x, 0)

\* s read as <open> X , Y <close>: <<X, Y, what follows the close>>, or <<>>
\* when s does not start that way
CornerOf(s) ==
    IF s = "" \/ Head(s) # "[" THEN <<>>
    ELSE LET r1 == Tail(s)
             i == IndexOf(r1, ",")
             r2 == SubSeq(r1, i + 1, Len(r1))
             j == IndexOf(r2, "]")
         IN  IF i = 0 \/ j = 0 THEN <<>>
             ELSE IF ~IsIntLiteral(SubSeq(r1, 1, i - 1)) \/ ~IsIntLiteral(SubSeq(r2, 1, j - 1))
             THEN <<>>
             ELSE <<SubSeq(r1, 1, i - 1), SubSeq(r2, 1, j - 1), SubSeq(r2, j + 1, Len(r2))>>

\* the coordinates of a string in the literal format [x1,y1][x2,y2], <<>>
\* for any other string
LiteralCoords(s) ==
    LET c1 == CornerOf(s) IN
    IF c1 = <<>> THEN <<>>
    ELSE LET c2 == CornerOf(c1[3]) IN
         IF c2 = <<>> THEN <<>>
         ELSE IF c2[3] # "" THEN <<>>
         ELSE <<IntLiteralValue(c1[1]), IntLiteralValue(c1[2]),
                IntLiteralValue(c2[1]), IntLiteralValue(c2[2])>>

CountChars(s, P(_)) == Cardinality({i \in 1..Len(s) : P(Ch(s, i))})

pair_a == pairs[1][1]
pair_b == pairs[1][2]
OfType(t) == SelectSeq(diffs, LAMBDA d : d.type = t)
ChangedKeys ==
    {k \in DOMAIN pair_a.attrib \cup DOMAIN pair_b.attrib :
        Get(pair_a.attrib, k) # Get(pair_b.attrib, k)}

\* C5: for a pair with both sides present compare_nodes emits one
\* attr_change per key of either side whose values differ (absent against
\* present differs), in lexicographic key order, then one text_change iff
\* the normalized texts differ with similarity below 0.9, then one
\* bounds_change iff both have a rectangle and the two are unequal; nothing
\* else.
C5_FullPairDiffs ==
    (pc = "compared" /\ pair_a # None /\ pair_b # None) =>
        LET attrs == OfType("attr_change")
            texts == OfType("text_change")
            rects == OfType("bounds_change")
        IN  /\ diffs = attrs \o texts \o rects
            /\ {attrs[i].attr : i \in 1..Len(attrs)} = ChangedKeys
            /\ \A i, j \in 1..Len(attrs) : i < j => StrLess(attrs[i].attr, attrs[j].attr)
            /\ \A i \in 1..Len(attrs) :
                  /\ attrs[i].from = Get(pair_a.attrib, attrs[i].attr)
                  /\ attrs[i].to = Get(pair_b.attrib, attrs[i].attr)
                  /\ attrs[i].path = pair_a.path
            /\ Len(texts) = (IF /\ pair_a.text # pair_b.text
                                /\ RLess(str_similarity(pair_a.text, pair_b.text),
                                         TEXT_SIMILARITY_THRESHOLD)
                             THEN 1 ELSE 0)
            /\ \A i \in 1..Len(texts) :
                  texts[i].from = Str(pair_a.text) /\ texts[i].to = Str(pair_b.text)
            /\ Len(rects) = (IF /\ pair_a.bounds.tag = "tuple"
                                /\ pair_b.bounds.tag = "tuple"
                                /\ pair_a.bounds.val # pair_b.bounds.val
                             THEN 1 ELSE 0)
            /\ \A i \in 1..Len(rects) :
                  rects[i].from = pair_a.bounds /\ rects[i].to = pair_b.bounds

\* a pair that differs in the value of the state flag `checked` only: one
\* attr_change from "true" to "false" and nothing else
C5_Witness ==
    /\ pc = "compared"
    /\ pair_a # None /\ pair_b # None
    /\ pair_a.text = pair_b.text /\ pair_a.bounds = pair_b.bounds
    /\ Len(diffs) = 1
    /\ diffs[1].type = "attr_change"
    /\ diffs[1].attr = "checked"
    /\ diffs[1].from = Str("true") /\ diffs[1].to = Str("false")


=============================================================================
